---- MODULE Spec2Model ----
(***************************************************************************)
(* A model of potion_maker_deluxe (src/potions_3.py, which extends         *)
(* src/potions_1.py): the Sorcerer's potion graph, random potion picker    *)
(* and allocation pass, and the Botanist's inventory.                      *)
(*                                                                         *)
(* Python objects are modelled as records.  Ingredient defines neither     *)
(* __eq__ nor __hash__, so two ingredients are equal only when they are    *)
(* the same object: every ingredient record carries the identity `id` of   *)
(* the object it stands for.                                               *)
(*                                                                         *)
(* The module random provides no poissonvariate.  The model takes the      *)
(* classes as src/potions_1.py leaves them, with that name unbound: every  *)
(* brew() raises NameError at its second statement, before its set of      *)
(* ingredients is constructed.  (The import at line 4 of src/potions_3.py  *)
(* raises ImportError, which leaves a program of no state at all.)  So no  *)
(* call of generate_graph returns a graph of the recipes, and the graphs   *)
(* the Sorcerer's other methods are given here are graphs their caller     *)
(* built, of the nodes and edges generate_graph names.                     *)
(***************************************************************************)
EXTENDS Integers, Sequences, FiniteSets, TLC

VARIABLES
    potion_graph,   \* the graph the caller passes to the Sorcerer's methods
    next_id,        \* identity of the next Ingredient object to be constructed
    s_inventory,    \* Sorcerer.inventory : name -> list of ingredients
    b_inventory,    \* Botanist.inventory : name -> list of ingredients
    objects,        \* the ingredients the Botanist has constructed so far
    call,           \* the Sorcerer call in progress (its local variables)
    result,         \* how the last Sorcerer call ended
    report,         \* the lines the last Botanist call printed, if it was show_inventory
    last,           \* history: the last Botanist operation and what it met
    adds,           \* history: add_ingredient calls per name
    removes         \* history: removals that deleted an element, per name

vars == <<potion_graph, next_id, s_inventory, b_inventory, objects, call,
          result, report, last, adds, removes>>

sorcerer_vars == <<potion_graph, s_inventory, call, result>>
botanist_vars == <<b_inventory, objects, report, last, adds, removes>>

----------------------------------------------------------------------------
(* Bounds of the model *)

\* the Botanist constructs at most this many ingredients
MaxObjects == 1
\* add_ingredient is called at most this many times
MaxAdds == 2
\* a budget handed to consume_ingredient holds 0 or MaxBudget per tier
MaxBudget == 5

----------------------------------------------------------------------------
(* Values that stand for "nothing yet" *)

NoGraph == [order |-> <<>>, nodes |-> {}, edges |-> {}]
Idle == [pc |-> "idle"]
NoResult == [op |-> "none", status |-> "none"]

----------------------------------------------------------------------------
(* Ingredients *)

quality_options == <<"normal", "premium", "legendary">>
Quality == {quality_options[i] : i \in 1..Len(quality_options)}
quality_costs == [normal |-> 1, premium |-> 3, legendary |-> 5]

ingredient_classes == <<"Herb", "Mushroom", "Root">>
Names == {ingredient_classes[i] : i \in 1..Len(ingredient_classes)}

\* randint(1, 5)
QuantityLow == 1
QuantityHigh == 5

\* An Ingredient object: its class (by the name get_name returns), its
\* fields, and its identity.
Ingredient(id, name, quantity, quality) ==
    [kind |-> "ingredient", id |-> id, name |-> name,
     quantity |-> quantity, quality |-> quality]

get_cost(i) == i.quantity * quality_costs[i.quality]

\* Python's == on two ingredients: object identity.
Eq(a, b) == a.id = b.id

\* same class, quantity and quality (what the code never compares)
SameShape(a, b) ==
    a.name = b.name /\ a.quantity = b.quantity /\ a.quality = b.quality

----------------------------------------------------------------------------
(* Lists and dicts *)

\* x in lst
Contains(lst, x) == \E i \in 1..Len(lst) : Eq(lst[i], x)

\* lst.remove(x) for a list that holds x: the first equal element goes
ListRemove(lst, x) ==
    LET i == CHOOSE k \in 1..Len(lst) :
                 Eq(lst[k], x) /\ \A j \in 1..(k - 1) : ~Eq(lst[j], x)
    IN  SubSeq(lst, 1, i - 1) \o SubSeq(lst, i + 1, Len(lst))

Occurrences(lst, x) == Cardinality({i \in 1..Len(lst) : Eq(lst[i], x)})

EmptyDict == <<>>

\* len(inventory[name]), 0 for a name that is no key
Count(inv, name) == IF name \in DOMAIN inv THEN Len(inv[name]) ELSE 0

Held(inv, x) == IF x.name \in DOMAIN inv THEN Occurrences(inv[x.name], x) ELSE 0

ShapeHeld(inv, x) ==
    IF x.name \in DOMAIN inv
    THEN Cardinality({i \in 1..Len(inv[x.name]) : SameShape(inv[x.name][i], x)})
    ELSE 0

----------------------------------------------------------------------------
(* Botanist *)

add_ingredient(inv, x) ==
    LET base == IF x.name \in DOMAIN inv THEN inv ELSE inv @@ (x.name :> <<>>)
    IN  [base EXCEPT ![x.name] = Append(@, x)]

\* a removal that deletes every equal element instead of the first
remove_every(inv, x) ==
    IF x.name \in DOMAIN inv
    THEN [inv EXCEPT ![x.name] = SelectSeq(@, LAMBDA y : ~Eq(y, x))]
    ELSE inv

remove_ingredient(inv, x) ==
    IF x.name \in DOMAIN inv
    THEN IF Contains(inv[x.name], x)
         THEN [inv EXCEPT ![x.name] = ListRemove(@, x)]
         ELSE inv
    ELSE inv

\* a report that leaves out the names whose list is empty
show_stocked(inv) == [n \in {m \in DOMAIN inv : Len(inv[m]) > 0} |-> Len(inv[n])]

\* the lines show_inventory prints: one per key of the dict
show_inventory(inv) == [n \in DOMAIN inv |-> Len(inv[n])]

\* History of the last Botanist operation: its argument, how often the
\* inventory held that object (held) and objects shaped like it (shape), the
\* count of its name before and after; again: the operation before it was a
\* removal of the same object, which had found it held0 times.
NoOp == [op |-> "none", arg |-> Ingredient(0, "Herb", 1, "normal"),
         held |-> 0, shape |-> 0, before |-> 0, after |-> 0,
         again |-> FALSE, held0 |-> 0]

Did(op, x, inv, inv2) ==
    [op |-> op, arg |-> x, held |-> Held(inv, x), shape |-> ShapeHeld(inv, x),
     before |-> Count(inv, x.name), after |-> Count(inv2, x.name),
     again |-> (last.op = op /\ last.arg = x),
     held0 |-> IF last.op = op /\ last.arg = x THEN last.held ELSE 0]

TotalAdds == adds["Herb"] + adds["Mushroom"] + adds["Root"]

\* An ingredient the caller builds only to pass it to remove_ingredient: a
\* new object, whose identity no stored object has.
Probe(name, quantity, quality) == Ingredient(0, name, quantity, quality)

RemoveArgs ==
    objects
    \cup {Probe(o.name, o.quantity, o.quality) : o \in objects}
    \cup {Probe(n, QuantityLow, "normal") : n \in Names}

AddIngredient(x) ==
    /\ call.pc = "idle"
    /\ TotalAdds < MaxAdds
    /\ x \in objects
    /\ b_inventory' = add_ingredient(b_inventory, x)
    /\ adds' = [adds EXCEPT ![x.name] = @ + 1]
    /\ last' = [NoOp EXCEPT !.op = "add"]
    /\ report' = EmptyDict
    /\ UNCHANGED <<objects, removes, next_id>>
    /\ UNCHANGED sorcerer_vars

RemoveIngredient(x) ==
    /\ call.pc = "idle"
    /\ x \in RemoveArgs
    /\ b_inventory' = remove_ingredient(b_inventory, x)
    /\ removes' = [removes EXCEPT ![x.name] =
                      @ + Count(b_inventory, x.name) - Count(b_inventory', x.name)]
    /\ last' = Did("remove", x, b_inventory, b_inventory')
    /\ report' = EmptyDict
    /\ UNCHANGED <<objects, adds, next_id>>
    /\ UNCHANGED sorcerer_vars

GenerateIngredient ==
    /\ call.pc = "idle"
    /\ Cardinality(objects) < MaxObjects
    /\ TotalAdds < MaxAdds
    /\ \E name \in Names, quantity \in QuantityLow..QuantityHigh, quality \in Quality :
          LET x == Ingredient(next_id, name, quantity, quality)
          IN  /\ b_inventory' = add_ingredient(b_inventory, x)
              /\ objects' = objects \cup {x}
              /\ adds' = [adds EXCEPT ![name] = @ + 1]
              /\ last' = [NoOp EXCEPT !.op = "generate"]
    /\ next_id' = next_id + 1
    /\ report' = EmptyDict
    /\ UNCHANGED removes
    /\ UNCHANGED sorcerer_vars

ShowInventory ==
    /\ call.pc = "idle"
    /\ report' = show_inventory(b_inventory)
    /\ last' = [NoOp EXCEPT !.op = "show"]
    /\ UNCHANGED <<b_inventory, objects, adds, removes, next_id>>
    /\ UNCHANGED sorcerer_vars

----------------------------------------------------------------------------
(* Potions *)

PotionClasses == <<"HealingPotion", "InvisibilityPotion", "StrengthPotion">>

\* a potion class object, and an instance of a potion class
Class(cls) == [kind |-> "class", cls |-> cls]
Potion(cls) == [kind |-> "potion", cls |-> cls]

\* potions = [HealingPotion, InvisibilityPotion, StrengthPotion]
potions == [i \in 1..Len(PotionClasses) |-> Class(PotionClasses[i])]
\* potion1, potion2, potion3
potion_instances == [i \in 1..Len(PotionClasses) |-> Potion(PotionClasses[i])]

\* The ingredients each brew's set display names, in the order it names
\* them.
Recipe(cls) ==
    CASE cls = "HealingPotion" ->
           << <<"Herb", 3, "normal">>, <<"Mushroom", 2, "normal">>,
              <<"Root", 1, "normal">> >>
      [] cls = "InvisibilityPotion" ->
           << <<"Herb", 2, "premium">>, <<"Mushroom", 1, "normal">>,
              <<"Root", 1, "normal">> >>
      [] cls = "StrengthPotion" ->
           << <<"Herb", 2, "legendary">>, <<"Mushroom", 3, "premium">>,
              <<"Root", 2, "premium">> >>

RecipeSize(cls) == Len(Recipe(cls))

\* The objects the set display of a brew names, the first of them with
\* identity id, as a caller constructs them.  (A set is unordered: whoever
\* iterates it meets its elements in an order the model leaves open.)
recipe_objects(cls, id) ==
    {Ingredient(id + k - 1, Recipe(cls)[k][1], Recipe(cls)[k][2],
                Recipe(cls)[k][3]) : k \in 1..RecipeSize(cls)}

\* potion.brew(): called on a class it raises TypeError (no self); called on
\* an instance it prints, then raises NameError at poissonvariate.  The set
\* display after it is never evaluated: no ingredient is constructed.
brew(potion) ==
    IF potion.kind = "potion"
    THEN [status |-> "NameError", ingredients |-> {}]
    ELSE [status |-> "TypeError", ingredients |-> {}]

\* potion_class(): only a class can be called
Callable(node) == node.kind = "class"

----------------------------------------------------------------------------
(* The potion graph: a DiGraph.  `order` keeps the nodes add_nodes_from      *)
(* inserted, in their order; the other nodes were inserted by add_edge.      *)

Successors(G, n) == {e[2] : e \in {d \in G.edges : d[1] = n}}
Predecessors(G, n) == {e[1] : e \in {d \in G.edges : d[2] = n}}

IngredientNodes(G) == {n \in G.nodes : n.kind = "ingredient"}

\* generate_graph(potions): the nodes are added, then the first potion is
\* brewed, which raises; the graph, local to the call, is lost.  Only for an
\* empty list does the loop not run and the call return, a graph of no nodes.
generate_graph(ps) ==
    IF ps = <<>>
    THEN [status |-> "returned",
          graph |-> [order |-> ps, nodes |-> {}, edges |-> {}]]
    ELSE [status |-> brew(ps[1]).status, graph |-> NoGraph]

----------------------------------------------------------------------------
(* Sorcerer *)

NoNode == [kind |-> "none"]

Result(op, status, picked, value, herbs) ==
    [op |-> op, status |-> status, picked |-> picked, value |-> value,
     herbs |-> herbs, inv0 |-> s_inventory, b_lost |-> 0, matching |-> FALSE]

ZeroBudget == [q \in Quality |-> 0]

TotalCount(inv) ==
    Count(inv, "Herb") + Count(inv, "Mushroom") + Count(inv, "Root")

\* the Botanist holds an ingredient shaped like one of the requirements rs
\* that the budget b could pay for
Matching(inv, rs, b) ==
    \E x \in objects : \E r \in rs :
        /\ Held(inv, x) > 0
        /\ r.kind = "ingredient"
        /\ SameShape(x, r)
        /\ get_cost(r) <= b[r.quality]

\* potion_graph = sorcerer.generate_graph(ps): the name is bound only when the
\* call returns
GenerateGraph(ps) ==
    /\ call.pc = "idle"
    /\ LET g == generate_graph(ps)
       IN  /\ potion_graph' = IF g.status = "returned" THEN g.graph ELSE potion_graph
           /\ result' = Result("generate_graph", g.status, NoNode, <<>>, ZeroBudget)
    /\ UNCHANGED <<next_id, s_inventory, call>>
    /\ UNCHANGED botanist_vars

\* generate_potion: choice(list(potion_graph.nodes)) picks any node of the
\* graph; the node is called, and what the call made is brewed.
generate_potion(node) ==
    IF ~Callable(node)
    THEN [status |-> "TypeError", value |-> <<>>]
    ELSE IF brew(Potion(node.cls)).status # "returned"
    THEN [status |-> brew(Potion(node.cls)).status, value |-> <<>>]
    ELSE [status |-> "returned", value |-> <<Potion(node.cls)>>]

GeneratePotion ==
    /\ call.pc = "idle"
    /\ potion_graph # NoGraph
    /\ \E node \in potion_graph.nodes :
          LET g == generate_potion(node)
          IN  result' = Result("generate_potion", g.status, node, g.value, ZeroBudget)
    /\ UNCHANGED <<potion_graph, next_id, s_inventory, call>>
    /\ UNCHANGED botanist_vars

\* a loop body that asks only for some budget, not for the cost
consume_any_budget(inv, herbs_used, x) ==
    IF x.kind # "ingredient"
    THEN [status |-> "AttributeError", inv |-> inv, herbs_used |-> herbs_used]
    ELSE IF herbs_used[x.quality] > 0
    THEN IF x.name \notin DOMAIN inv
         THEN [status |-> "KeyError", inv |-> inv, herbs_used |-> herbs_used]
         ELSE IF ~Contains(inv[x.name], x)
         THEN [status |-> "ValueError", inv |-> inv, herbs_used |-> herbs_used]
         ELSE [status |-> "ok",
               inv |-> [inv EXCEPT ![x.name] = ListRemove(@, x)],
               herbs_used |-> [herbs_used EXCEPT ![x.quality] = @ - get_cost(x)]]
    ELSE [status |-> "ok", inv |-> inv, herbs_used |-> herbs_used]

\* The body of consume_ingredient's loop for one successor x.
consume_one(inv, herbs_used, x) ==
    IF x.kind # "ingredient"
    THEN [status |-> "AttributeError", inv |-> inv, herbs_used |-> herbs_used]
    ELSE IF herbs_used[x.quality] >= get_cost(x)
    THEN IF x.name \notin DOMAIN inv
         THEN [status |-> "KeyError", inv |-> inv, herbs_used |-> herbs_used]
         ELSE IF ~Contains(inv[x.name], x)
         THEN [status |-> "ValueError", inv |-> inv, herbs_used |-> herbs_used]
         ELSE [status |-> "ok",
               inv |-> [inv EXCEPT ![x.name] = ListRemove(@, x)],
               herbs_used |-> [herbs_used EXCEPT ![x.quality] = @ - get_cost(x)]]
    ELSE [status |-> "ok", inv |-> inv, herbs_used |-> herbs_used]

\* the frame of a consume_ingredient call; ret is the frame it returns to
ConsumeFrame(G, node, herbs_used, ret, op, b0, matching, inv0, herbs0) ==
    [pc |-> "consume", ingredients |-> Successors(G, node),
     herbs_used |-> herbs_used, ret |-> ret, op |-> op,
     b0 |-> b0, matching |-> matching, inv0 |-> inv0, herbs0 |-> herbs0]

Budgets == [Quality -> {0, MaxBudget}]

\* sorcerer.consume_ingredient(node, potion_graph, herbs_used), called directly
ConsumeCall(node, herbs_used) ==
    /\ call.pc = "idle"
    /\ potion_graph # NoGraph
    /\ node \in potion_graph.nodes
    /\ herbs_used \in Budgets
    /\ call' = ConsumeFrame(potion_graph, node, herbs_used, Idle,
                            "consume_ingredient", TotalCount(b_inventory),
                            Matching(b_inventory, Successors(potion_graph, node), herbs_used),
                            s_inventory, herbs_used)
    /\ result' = NoResult
    /\ UNCHANGED <<potion_graph, next_id, s_inventory>>
    /\ UNCHANGED botanist_vars

Finish(op, status, value, herbs) ==
    [Result(op, status, NoNode, value, herbs) EXCEPT
        !.inv0 = call.inv0,
        !.b_lost = call.b0 - TotalCount(b_inventory),
        !.matching = call.matching]

\* optimize_potions after the consume_ingredient of one predecessor returned
\* herbs_used: the next predecessor, or the potion is appended
Resume(frame, herbs_used) ==
    IF frame.preds = {}
    THEN [frame EXCEPT !.herbs_used = herbs_used,
                       !.optimized_potions = Append(@, frame.potion)]
    ELSE LET p == CHOOSE q \in frame.preds : TRUE
         IN  ConsumeFrame(potion_graph, p, herbs_used,
                          [frame EXCEPT !.preds = @ \ {p}], frame.op,
                          frame.b0, frame.matching, frame.inv0, frame.herbs0)

\* one turn of consume_ingredient's loop, or its return
ConsumeStep ==
    /\ call.pc = "consume"
    /\ IF call.ingredients = {}
       THEN /\ IF call.ret.pc = "idle"
               THEN /\ call' = Idle
                    /\ result' = Finish(call.op, "returned", <<>>, call.herbs_used)
               ELSE /\ call' = Resume(call.ret, call.herbs_used)
                    /\ result' = result
            /\ s_inventory' = s_inventory
       ELSE \E x \in call.ingredients :
               LET r == consume_one(s_inventory, call.herbs_used, x)
               IN  /\ s_inventory' = r.inv
                   /\ IF r.status = "ok"
                      THEN /\ call' = [call EXCEPT !.ingredients = @ \ {x},
                                                   !.herbs_used = r.herbs_used]
                           /\ result' = result
                      ELSE /\ call' = Idle
                           /\ result' = Finish(call.op, r.status, <<>>, r.herbs_used)
    /\ UNCHANGED <<potion_graph, next_id>>
    /\ UNCHANGED botanist_vars

\* topological_sort: the nodes nothing points to come first, in insertion
\* order; the nodes they point to follow
ZeroInDegree(G) == SelectSeq(G.order, LAMBDA n : Predecessors(G, n) = {})

OptimizeStart ==
    /\ call.pc = "idle"
    /\ potion_graph # NoGraph
    /\ call' = [pc |-> "optimize", op |-> "optimize_potions",
                todo |-> ZeroInDegree(potion_graph),
                later |-> {n \in potion_graph.nodes : Predecessors(potion_graph, n) # {}},
                herbs_used |-> ZeroBudget,
                optimized_potions |-> <<>>,
                potion |-> NoNode, preds |-> {},
                b0 |-> TotalCount(b_inventory),
                matching |-> Matching(b_inventory, IngredientNodes(potion_graph),
                                      [q \in Quality |-> MaxBudget]),
                inv0 |-> s_inventory, herbs0 |-> ZeroBudget]
    /\ result' = NoResult
    /\ UNCHANGED <<potion_graph, next_id, s_inventory>>
    /\ UNCHANGED botanist_vars

\* what optimize_potions does with the next node of sorted_potions
optimize_node(frame, node) ==
    IF ~Callable(node)
    THEN [status |-> "TypeError", frame |-> frame]
    ELSE [status |-> "ok",
          frame |-> Resume([frame EXCEPT !.potion = Potion(node.cls),
                                         !.preds = Predecessors(potion_graph, node)],
                           frame.herbs_used)]

\* one turn of optimize_potions' loop, or its return
OptimizeStep ==
    /\ call.pc = "optimize"
    /\ IF call.todo = <<>> /\ call.later = {}
       THEN /\ call' = Idle
            /\ result' = Finish(call.op, "returned", call.optimized_potions,
                                call.herbs_used)
       ELSE \E node \in (IF call.todo # <<>> THEN {Head(call.todo)} ELSE call.later) :
               LET rest == IF call.todo # <<>>
                           THEN [call EXCEPT !.todo = Tail(@)]
                           ELSE [call EXCEPT !.later = @ \ {node}]
                   r == optimize_node(rest, node)
               IN  IF r.status = "ok"
                   THEN /\ call' = r.frame
                        /\ result' = result
                   ELSE /\ call' = Idle
                        /\ result' = Finish(call.op, r.status,
                                            call.optimized_potions, call.herbs_used)
    /\ UNCHANGED <<potion_graph, next_id, s_inventory>>
    /\ UNCHANGED botanist_vars

----------------------------------------------------------------------------
(* The graphs and inventories a caller hands to the Sorcerer *)

\* The graph generate_graph names for potion1, potion2, potion3: an edge from
\* each potion to each ingredient of its recipe, the ingredients being
\* objects the caller constructed.
InstanceGraph ==
    LET ps == potion_instances
        base(k) == (k - 1) * RecipeSize(ps[1].cls) + 1
        edges == UNION {{<<ps[k], x>> : x \in recipe_objects(ps[k].cls, base(k))}
                        : k \in 1..Len(ps)}
    IN  [order |-> ps,
         nodes |-> {ps[k] : k \in 1..Len(ps)} \cup {e[2] : e \in edges},
         edges |-> edges]

\* the same graph with the potion classes of the list `potions` as its
\* potion nodes
ClassOf(n) == IF n.kind = "potion" THEN Class(n.cls) ELSE n
ClassGraph ==
    [order |-> [k \in 1..Len(InstanceGraph.order) |-> ClassOf(InstanceGraph.order[k])],
     nodes |-> {ClassOf(n) : n \in InstanceGraph.nodes},
     edges |-> {<<ClassOf(e[1]), e[2]>> : e \in InstanceGraph.edges}]

InputGraphs == {InstanceGraph, ClassGraph}

Requirements == IngredientNodes(InstanceGraph)

\* another object of the same class, quantity and quality
Twin(x) == [x EXCEPT !.id = @ + Cardinality(Requirements)]

\* the list of the objects of S, oldest first
ListOf(S) ==
    CHOOSE lst \in [1..Cardinality(S) -> S] :
        \A i, j \in 1..Cardinality(S) : i < j => lst[i].id < lst[j].id

\* the inventory that holds the objects of S, each under its name
Stock(S) == [n \in {x.name : x \in S} |-> ListOf({x \in S : x.name = n})]

\* An input inventory holds, for some of the names, every requirement of that
\* name: either the very objects of the graph, or objects shaped like them.
InputInventories ==
    {Stock({x \in Requirements : x.name \in N}) : N \in SUBSET Names}
    \cup {Stock({Twin(x) : x \in {y \in Requirements : y.name \in N}}) : N \in SUBSET Names}

----------------------------------------------------------------------------
(* Specifications *)

\* a Sorcerer and a Botanist just constructed, nothing called yet
Constructed ==
    /\ b_inventory = EmptyDict
    /\ objects = {}
    /\ call = Idle
    /\ result = NoResult
    /\ report = EmptyDict
    /\ last = NoOp
    /\ adds = [n \in Names |-> 0]
    /\ removes = [n \in Names |-> 0]

\* The Botanist alone.
InitBotanist ==
    /\ potion_graph = NoGraph
    /\ next_id = 1
    /\ s_inventory = EmptyDict
    /\ Constructed

NextBotanist ==
    \/ \E x \in objects : AddIngredient(x)
    \/ \E x \in RemoveArgs : RemoveIngredient(x)
    \/ GenerateIngredient
    \/ ShowInventory

SpecBotanist == InitBotanist /\ [][NextBotanist]_vars

\* A Sorcerer as constructed (its inventory empty), a Botanist, and a caller
\* who holds a graph: the Sorcerer's methods called on it, and the Botanist
\* generating ingredients.
Init ==
    /\ potion_graph \in InputGraphs
    /\ next_id = Cardinality(Requirements) + 1
    /\ s_inventory = EmptyDict
    /\ Constructed

Next ==
    \/ \E ps \in {potions, potion_instances} : GenerateGraph(ps)
    \/ GeneratePotion
    \/ OptimizeStart
    \/ OptimizeStep
    \/ \E node \in potion_graph.nodes, b \in Budgets : ConsumeCall(node, b)
    \/ ConsumeStep
    \/ GenerateIngredient

Spec == Init /\ [][Next]_vars

\* The allocator with a Sorcerer whose inventory attribute the caller has
\* filled.
InitAlloc ==
    /\ potion_graph \in InputGraphs
    /\ next_id = 2 * Cardinality(Requirements) + 1
    /\ s_inventory \in InputInventories
    /\ Constructed

NextAlloc ==
    \/ GeneratePotion
    \/ OptimizeStart
    \/ OptimizeStep
    \/ \E node \in potion_graph.nodes, b \in Budgets : ConsumeCall(node, b)
    \/ ConsumeStep

SpecAlloc == InitAlloc /\ [][NextAlloc]_vars

----------------------------------------------------------------------------
(* Properties *)

Range(seq) == {seq[i] : i \in 1..Len(seq)}

AllocatorOps == {"optimize_potions", "consume_ingredient"}

\* a node that stands for a potion kind: a potion class or a potion object
IsPotionNode(n) == n.kind \in {"class", "potion"}

\* C1: a pass of optimize_potions (its budget is 0 for every tier) returns a
\* sequence that contains potion instances and leaves the Sorcerer's
\* inventory as it found it.
C1_FreshPassReturnsPotions ==
    result.op = "optimize_potions" =>
        /\ result.status = "returned"
        /\ result.value # <<>>
        /\ \A p \in Range(result.value) : p.kind = "potion"
        /\ s_inventory = result.inv0

\* C2: every node optimize_potions iterates is a potion kind, never an
\* ingredient requirement, and the pass returns exactly one potion instance
\* per potion kind.
C2_PassIteratesPotionKindsOnly ==
    /\ call.pc = "optimize" =>
          \A n \in Range(call.todo) \cup call.later : IsPotionNode(n)
    /\ result.op = "optimize_potions" =>
          /\ result.status = "returned"
          /\ Len(result.value) = Len(PotionClasses)
          /\ \A p \in Range(result.value) : p.kind = "potion"
          /\ {p.cls : p \in Range(result.value)} = Range(PotionClasses)

\* the distinct (ingredient kind, quantity, quality) requirements of the recipes
DistinctRequirements == UNION {Range(Recipe(c)) : c \in Range(PotionClasses)}

RecipeEntries ==
    RecipeSize("HealingPotion") + RecipeSize("InvisibilityPotion")
        + RecipeSize("StrengthPotion")

\* C3: generate_graph on the recipe set returns a graph with one node per
\* potion kind, one node per distinct (kind, quantity, quality) requirement
\* and one edge per requirement, the requirement Root 1 normal being one node
\* with an edge from each of the two potions that need it.
C3_OneNodePerDistinctRequirement ==
    result.op = "generate_graph" =>
          /\ result.status = "returned"
          /\ Cardinality({n \in potion_graph.nodes : IsPotionNode(n)}) = Len(PotionClasses)
          /\ Cardinality(IngredientNodes(potion_graph)) = Cardinality(DistinctRequirements)
          /\ Cardinality(potion_graph.edges) = RecipeEntries
          /\ \E n \in IngredientNodes(potion_graph) :
                /\ SameShape(n, Probe("Root", 1, "normal"))
                /\ Cardinality(Predecessors(potion_graph, n)) = 2

\* C4: during and after every allocator call no tier of the budget is below
\* 0, and the budget of an optimize_potions pass is the 0 it was reset to.
C4_BudgetNeverNegative ==
    /\ call.pc \in {"consume", "optimize"} =>
          \A q \in Quality : call.herbs_used[q] >= 0
    /\ (call.pc \in {"consume", "optimize"} /\ call.op = "optimize_potions") =>
          call.herbs_used = ZeroBudget
    /\ result.op \in AllocatorOps =>
          \A q \in Quality : result.herbs[q] >= 0

\* a consume_ingredient call that has removed an ingredient and paid for it
C4_Witness ==
    /\ call.pc = "consume"
    /\ \E q \in Quality : call.herbs_used[q] < call.herbs0[q]
    /\ s_inventory # call.inv0

\* C5 as claimed: after remove(x); remove(x) the count is the count after
\* the first remove(x).
C5_SecondRemovalIsNoOp ==
    (last.op = "remove" /\ last.again) => last.after = last.before

\* C5 as amended: each removal deletes one element when x is held and none
\* otherwise, so the second of two removals of x is a no-op exactly when x
\* was held at most once before the first.
C5_SecondRemovalNoOpIffHeldOnce ==
    last.op = "remove" =>
        /\ last.after = last.before - (IF last.held > 0 THEN 1 ELSE 0)
        /\ last.again => (last.after = last.before <=> last.held0 <= 1)

\* x was held once, was removed, and was removed again
C5_Witness ==
    /\ last.op = "remove"
    /\ last.again
    /\ last.held0 = 1
    /\ last.after = last.before

\* C6: no allocator call ends in the error of a missing inventory entry; an
\* affordable ingredient the inventory does not hold is skipped.
C6_MissingEntryIsSkipped ==
    result.op \in AllocatorOps => result.status \notin {"KeyError", "ValueError"}

\* C7: an allocator call that started while the Botanist's inventory held an
\* ingredient matching a requirement the funded budget (MaxBudget per tier)
\* could pay for has removed an ingredient from that inventory.
C7_FundedPassRemovesFromBotanist ==
    (result.op \in AllocatorOps /\ result.matching) => result.b_lost > 0

\* C8: the node generate_potion picks is a potion kind, and the call leaves
\* the Sorcerer's inventory alone.
C8_PickerSelectsPotionKind ==
    result.op = "generate_potion" =>
        /\ IsPotionNode(result.picked)
        /\ s_inventory = result.inv0

\* C9: remove_ingredient deletes one element when the list of the argument's
\* name holds an ingredient of the same kind, quantity and quality, and
\* nothing otherwise.
C9_RemoveMatchesByShape ==
    last.op = "remove" =>
        last.after = last.before - (IF last.shape > 0 THEN 1 ELSE 0)

\* C10 as claimed: show_inventory lists exactly the names that have stock,
\* each with adds minus effective removes.
C10_ReportListsStockedNames ==
    last.op = "show" =>
        /\ DOMAIN report = {n \in Names : Count(b_inventory, n) > 0}
        /\ \A n \in DOMAIN report :
              report[n] = adds[n] - removes[n] /\ report[n] >= 0

\* C10 as amended: show_inventory lists exactly the names that were ever
\* added, each with adds minus effective removes, which is never negative; a
\* name whose last instance was removed is still listed, with 0.
C10_ReportListsAddedNames ==
    last.op = "show" =>
        /\ DOMAIN report = {n \in Names : adds[n] > 0}
        /\ \A n \in DOMAIN report :
              /\ report[n] = adds[n] - removes[n]
              /\ report[n] = Count(b_inventory, n)
              /\ report[n] >= 0

\* a report made after the last instance of a name was removed: the name
\* is listed with 0
C10_Witness ==
    /\ last.op = "show"
    /\ \E n \in DOMAIN report : report[n] = 0 /\ removes[n] > 0

====
